---- MODULE Spec2Model ----
(***************************************************************************)
(* Model of the order-placement transaction of src/src/main.rs             *)
(* (create_order) running against the SQLite store through sqlx, together  *)
(* with the handlers that run beside it: create_product, update_product,   *)
(* delete_product and get_order.                                           *)
(*                                                                         *)
(* Store semantics (sqlx::Sqlite, pool.begin() = deferred BEGIN):          *)
(*   - a transaction's first SELECT fixes its read snapshot;               *)
(*   - its first write must take the single write lock; it is refused      *)
(*     (SQLITE_BUSY) while another transaction holds the lock and refused  *)
(*     (SQLITE_BUSY_SNAPSHOT) when a commit happened after its snapshot;   *)
(*   - its writes are private until COMMIT installs them all at once;      *)
(*   - dropping the Transaction without commit (an early return through    *)
(*     `?` or `return Err`, or a dropped request future) rolls it back.    *)
(***************************************************************************)
EXTENDS Integers, Sequences, FiniteSets, TLC

\* ---------------------------------------------------------------- bounds
MaxItems == 2        \* longest item list of a request running alone
MaxRaceItems == 1    \* longest item list of two requests running together
MaxQty == 2          \* largest requested quantity
MaxUpdates == 1      \* how many update_product calls run beside the order
MaxCatalogOps == 2   \* how many create_product and delete_product calls run

\* ------------------------------------------------------------ input sets
Requests == {"r1", "r2"}
CatalogIds == {1, 2}                \* ids of the products in the store
RequestIds == CatalogIds \cup {3}   \* 3 is an id no product has
Quantities == (0 - 1) .. MaxQty     \* i32 quantities: negative, zero, positive
NewPrices == {5}                    \* prices update_product sets
OrderIds == {"o1", "o2"}            \* values Uuid::new_v4() may return
Times == {"t1", "t2"}               \* values Utc::now().to_rfc3339() may return
NoId == ""

Items == [product_id : RequestIds, quantity : Quantities]

Lists(n) == UNION {[1 .. k -> Items] : k \in 0 .. n}

\* the CreateOrder payloads: OrderItemRequest lists
Payloads == Lists(MaxItems)

\* two requests running together ask positive quantities
RaceItems == {it \in Items : it.quantity > 0}

RacePayloads == UNION {[1 .. k -> RaceItems] : k \in 0 .. MaxRaceItems}

\* the orders placed beside the catalog handlers: none, one of a product, one of
\* an id that create_product may come to assign, one of two products
CatalogPayloads ==
    {<< >>,
     <<[product_id |-> 2, quantity |-> 1]>>,
     <<[product_id |-> 3, quantity |-> 1]>>,
     <<[product_id |-> 1, quantity |-> 1], [product_id |-> 2, quantity |-> 1]>>}

\* ----------------------------------------------------------------- store
\* products table after the catalog was filled: price_cents > 0, stock >= 0
InitProducts ==
    (1 :> [name |-> "n1", description |-> "d1", price_cents |-> 2, stock |-> 1]) @@
    (2 :> [name |-> "n1", description |-> "d1", price_cents |-> 3, stock |-> 2])

\* seq is the products row of sqlite_sequence (the table is AUTOINCREMENT): the
\* largest id the table ever held
InitDb == [products |-> InitProducts, orders |-> << >>, items |-> << >>, seq |-> 2]

NoDb == [products |-> << >>, orders |-> << >>, items |-> << >>, seq |-> 0]

VARIABLES
    db,           \* the committed database: products, orders, order_items
    version,      \* number of commits so far (SQLite's change counter)
    writer,       \* the request holding the write lock, or NoId
    updates,      \* update_product calls made so far
    payload,      \* payload[r]: the CreateOrder items of request r
    pc,           \* pc[r]: where create_order is for request r
    idx,          \* idx[r]: index of the item the current loop is at
    total_cents,  \* total_cents[r]: the running total (local variable)
    order_id,     \* order_id[r]: the generated uuid (local variable)
    unit_price,   \* unit_price[r]: the price re-read in step 3
    snapver,      \* snapver[r]: version of the transaction's snapshot, -1 before it
    work,         \* work[r]: that snapshot plus the transaction's own writes
    result,       \* result[r]: the response of request r
    assigned,     \* every product id the store has assigned so far (history)
    catops,       \* create_product and delete_product calls made so far
    updater,      \* the update_product call that has committed and not yet answered
    reader        \* the get_order call: its position, the row it read, its answer

vars == <<db, version, writer, updates, payload, pc, idx, total_cents,
          order_id, unit_price, snapver, work, result, assigned, catops, updater,
          reader>>

\* the state create_order does not touch: the catalog handlers' and get_order's
side_vars == <<assigned, catops, updater, reader>>

\* the state of the create_order requests
order_vars == <<payload, pc, idx, total_cents, order_id, unit_price, snapver,
                work, result>>

\* ------------------------------------------------------------- responses
NoResult == [kind |-> "none", product |-> 0, id |-> NoId, total_cents |-> 0]

\* Ok((StatusCode::CREATED, Json(OrderResponse { id, total_cents })))
Created(o, t) == [kind |-> "Created", product |-> 0, id |-> o, total_cents |-> t]

\* AppError::BadRequest("order must contain at least one item")
EmptyOrder == [kind |-> "EmptyOrder", product |-> 0, id |-> NoId, total_cents |-> 0]

\* AppError::BadRequest("product {} not found")
ProductNotFound(p) == [kind |-> "ProductNotFound", product |-> p, id |-> NoId, total_cents |-> 0]

\* AppError::BadRequest("not enough stock for product {}")
NotEnoughStock(p) == [kind |-> "NotEnoughStock", product |-> p, id |-> NoId, total_cents |-> 0]

\* AppError::DbError(sqlx::Error), cause: "fault", "busy", "busy_snapshot",
\* "constraint" or "row_not_found"
DbError(cause) == [kind |-> cause, product |-> 0, id |-> NoId, total_cents |-> 0]

DbErrorKinds == {"fault", "busy", "busy_snapshot", "constraint", "row_not_found"}

\* the request future was dropped: no response is sent
Cancelled == [kind |-> "Cancelled", product |-> 0, id |-> NoId, total_cents |-> 0]

\* ------------------------------------------------ statements on a view
\* (mutant) a lookup that answers a missing product with an empty default row
SelectProductOrDefault(view, p) ==
    IF p \in DOMAIN view.products THEN {view.products[p]}
    ELSE {[name |-> "", description |-> "", price_cents |-> 0, stock |-> 0]}

\* SELECT stock, price_cents FROM products WHERE id = ?
\* the rows returned: none, or the one row of product p
SelectProduct(view, p) ==
    IF p \in DOMAIN view.products THEN {view.products[p]} ELSE {}

\* the row of a one-row result
Row(rows) == CHOOSE row \in rows : TRUE

\* (mutant) a stock check that is off by one
StockOkLoose(stock, quantity) == ~(stock + 1 < quantity)

\* if stock < item.quantity { return Err(..) }
StockOk(stock, quantity) == ~(stock < quantity)

\* (mutant) a total that adds the unit price whatever the quantity
LineTotalNoQty(quantity, price) == price

\* (item.quantity as i64) * unit_price
LineTotal(quantity, price) == quantity * price

\* (mutant) an orders table without the primary key: INSERT replaces the row
PrimaryKeyAny(view, o) == TRUE

\* orders.id is TEXT PRIMARY KEY
PrimaryKeyFree(view, o) == o \notin DOMAIN view.orders

\* INSERT INTO orders (id, total_cents, created_at) VALUES (?, ?, ?)
InsertOrderRow(view, o, t, now) ==
    [view EXCEPT !.orders = (o :> [total_cents |-> t, created_at |-> now]) @@ view.orders]

\* (mutant) an item row that records one unit whatever was ordered
InsertItemRowUnit(view, o, p, q, price) ==
    [view EXCEPT !.items = Append(view.items,
        [order_id |-> o, product_id |-> p, quantity |-> 1, unit_price_cents |-> price])]

\* INSERT INTO order_items (order_id, product_id, quantity, unit_price_cents)
InsertItemRow(view, o, p, q, price) ==
    [view EXCEPT !.items = Append(view.items,
        [order_id |-> o, product_id |-> p, quantity |-> q, unit_price_cents |-> price])]

\* (mutant) the UPDATE without its WHERE clause: every product is decremented
DecrementStockAll(view, p, q) ==
    [view EXCEPT !.products = [x \in DOMAIN view.products |->
        [view.products[x] EXCEPT !.stock = @ - q]]]

\* UPDATE products SET stock = stock - ? WHERE id = ?
DecrementStock(view, p, q) ==
    [view EXCEPT !.products = [x \in DOMAIN view.products |->
        IF x = p THEN [view.products[x] EXCEPT !.stock = @ - q]
                 ELSE view.products[x]]]

\* UPDATE products SET name = COALESCE(?, name),
\*     description = COALESCE(?, description),
\*     price_cents = COALESCE(?, price_cents), stock = COALESCE(?, stock)
\* WHERE id = ?
\* an Option: {} is None, {v} is Some(v)
None == {}

Some(v) == {v}

Coalesce(opt, old) == IF opt = None THEN old ELSE CHOOSE v \in opt : TRUE

\* (mutant) the UPDATE without its WHERE clause: every product is rewritten
UpdateEveryRow(view, p, upd) ==
    [view EXCEPT !.products = [x \in DOMAIN view.products |->
        [name |-> Coalesce(upd.name, view.products[x].name),
         description |-> Coalesce(upd.description, view.products[x].description),
         price_cents |-> Coalesce(upd.price_cents, view.products[x].price_cents),
         stock |-> Coalesce(upd.stock, view.products[x].stock)]]]

UpdateProductRow(view, p, upd) ==
    [view EXCEPT !.products = [x \in DOMAIN view.products |->
        IF x = p THEN [name |-> Coalesce(upd.name, view.products[x].name),
                       description |-> Coalesce(upd.description, view.products[x].description),
                       price_cents |-> Coalesce(upd.price_cents, view.products[x].price_cents),
                       stock |-> Coalesce(upd.stock, view.products[x].stock)]
                 ELSE view.products[x]]]

\* ------------------------------------------------------- transactions
\* (mutant) a dropped transaction whose writes stay
RollbackKeeps(committed, working) == working

\* what the database holds after a transaction is dropped without commit
Rollback(committed, working) == committed

\* (mutant) a commit that installs the order rows and leaves the item rows out
CommitWithoutItems(committed, working) == [working EXCEPT !.items = committed.items]

\* what the database holds after tx.commit()
CommitTx(committed, working) == working

HasSnapshot(r) == snapver[r] >= 0

\* (mutant) statements that read the uncommitted writes of the writer
TxViewDirty(r) ==
    IF writer \notin {NoId, r} THEN work[writer]
    ELSE IF HasSnapshot(r) THEN work[r] ELSE db

\* the view the statements of request r run on (&mut tx): its snapshot with its
\* own writes, the snapshot being taken by the first statement
TxView(r) == IF HasSnapshot(r) THEN work[r] ELSE db

\* the view step 3 re-reads the price from (&mut tx as well)
PriceView(r) == work[r]

\* the first write of a transaction needs the write lock and a fresh snapshot
LockFree(r) == writer \in {NoId, r}

SnapshotFresh(r) == writer = r \/ snapver[r] = version

\* (mutant) loops that walk the items from the last one to the first
ItemReversed(r) == payload[r][Len(payload[r]) + 1 - idx[r]]

\* for item in &payload.items: the item the current iteration is at
Item(r) == payload[r][idx[r]]

InFlight(r) == pc[r] \notin {"start", "done"}

\* the handler returns (or its future is dropped): locals and tx are dropped
Finish(r, res) ==
    /\ pc' = [pc EXCEPT ![r] = "done"]
    /\ result' = [result EXCEPT ![r] = res]
    /\ idx' = [idx EXCEPT ![r] = 0]
    /\ total_cents' = [total_cents EXCEPT ![r] = 0]
    /\ order_id' = [order_id EXCEPT ![r] = NoId]
    /\ unit_price' = [unit_price EXCEPT ![r] = 0]
    /\ work' = [work EXCEPT ![r] = NoDb]
    /\ snapver' = [snapver EXCEPT ![r] = 0 - 1]
    /\ writer' = IF writer = r THEN NoId ELSE writer

\* an early return: the Transaction is dropped, which rolls it back
Abort(r, res) ==
    /\ Finish(r, res)
    /\ db' = Rollback(db, work[r])
    /\ UNCHANGED <<side_vars, version, updates, payload>>

\* ------------------------------------------------------------ create_order
\* if payload.items.is_empty() { return Err(BadRequest) }
RejectEmpty(r) ==
    /\ pc[r] = "start"
    /\ payload[r] = << >>
    /\ Finish(r, EmptyOrder)
    /\ UNCHANGED <<side_vars, db, version, updates, payload>>

\* let mut tx = state.pool.begin().await?; let mut total_cents = 0;
Begin(r) ==
    /\ pc[r] = "start"
    /\ payload[r] # << >>
    /\ pc' = [pc EXCEPT ![r] = "check"]
    /\ idx' = [idx EXCEPT ![r] = 1]
    /\ total_cents' = [total_cents EXCEPT ![r] = 0]
    /\ UNCHANGED <<side_vars, db, version, writer, updates, payload, order_id, unit_price,
                   snapver, work, result>>

\* Step 1, one iteration: look the product up, check stock, add to the total.
\* The first SELECT of the transaction fixes its snapshot.
CheckItem(r) ==
    /\ pc[r] = "check"
    /\ LET view == TxView(r)
           ver  == IF HasSnapshot(r) THEN snapver[r] ELSE version
           it   == Item(r)
           rows == SelectProduct(view, it.product_id)
       IN  IF rows = {}
           THEN /\ Finish(r, ProductNotFound(it.product_id))
                /\ db' = Rollback(db, view)
                /\ UNCHANGED <<side_vars, version, updates, payload>>
           ELSE IF ~StockOk(Row(rows).stock, it.quantity)
           THEN /\ Finish(r, NotEnoughStock(it.product_id))
                /\ db' = Rollback(db, view)
                /\ UNCHANGED <<side_vars, version, updates, payload>>
           ELSE /\ total_cents' = [total_cents EXCEPT ![r] =
                       @ + LineTotal(it.quantity, Row(rows).price_cents)]
                /\ IF idx[r] < Len(payload[r])
                   THEN /\ idx' = [idx EXCEPT ![r] = @ + 1]
                        /\ pc' = pc
                   ELSE /\ idx' = [idx EXCEPT ![r] = 0]
                        /\ pc' = [pc EXCEPT ![r] = "insert_order"]
                /\ snapver' = [snapver EXCEPT ![r] = ver]
                /\ work' = [work EXCEPT ![r] = view]
                /\ UNCHANGED <<side_vars, db, version, writer, updates, payload, order_id,
                               unit_price, result>>

\* Step 2: let order_id = Uuid::new_v4(); let now = Utc::now().to_rfc3339();
\* INSERT INTO orders ...
\* The transaction's first write: it takes the write lock.
InsertOrder(r, o, now) ==
    /\ pc[r] = "insert_order"
    /\ LockFree(r)
    /\ SnapshotFresh(r)
    /\ IF PrimaryKeyFree(TxView(r), o)
       THEN /\ work' = [work EXCEPT ![r] = InsertOrderRow(@, o, total_cents[r], now)]
            /\ order_id' = [order_id EXCEPT ![r] = o]
            /\ writer' = r
            /\ pc' = [pc EXCEPT ![r] = "price"]
            /\ idx' = [idx EXCEPT ![r] = 1]
            /\ UNCHANGED <<side_vars, db, version, updates, payload, total_cents, unit_price,
                           snapver, result>>
       ELSE Abort(r, DbError("constraint"))

\* (mutant) a store that keeps the INSERT waiting instead of refusing it
WriteWaits(r) ==
    /\ pc[r] = "insert_order"
    /\ ~(LockFree(r) /\ SnapshotFresh(r))
    /\ UNCHANGED vars

\* the INSERT is refused: SQLITE_BUSY_SNAPSHOT (somebody committed after this
\* transaction's snapshot) or SQLITE_BUSY (another transaction holds the write
\* lock; a transaction that already reads is refused without waiting)
WriteRefused(r) ==
    /\ pc[r] = "insert_order"
    /\ \/ /\ LockFree(r)
          /\ ~SnapshotFresh(r)
          /\ Abort(r, DbError("busy_snapshot"))
       \/ /\ ~LockFree(r)
          /\ Abort(r, DbError("busy"))

\* Step 3a: SELECT price_cents FROM products WHERE id = ?  (fetch_one)
SelectPrice(r) ==
    /\ pc[r] = "price"
    /\ IF SelectProduct(PriceView(r), Item(r).product_id) # {}
       THEN /\ unit_price' = [unit_price EXCEPT ![r] =
                   Row(SelectProduct(PriceView(r), Item(r).product_id)).price_cents]
            /\ pc' = [pc EXCEPT ![r] = "insert_item"]
            /\ UNCHANGED <<side_vars, db, version, writer, updates, payload, idx, total_cents,
                           order_id, snapver, work, result>>
       ELSE Abort(r, DbError("row_not_found"))

\* Step 3b: INSERT INTO order_items ...
InsertItem(r) ==
    /\ pc[r] = "insert_item"
    /\ work' = [work EXCEPT ![r] = InsertItemRow(@, order_id[r], Item(r).product_id,
                                                  Item(r).quantity, unit_price[r])]
    /\ pc' = [pc EXCEPT ![r] = "update_stock"]
    /\ UNCHANGED <<side_vars, db, version, writer, updates, payload, idx, total_cents,
                   order_id, unit_price, snapver, result>>

\* Step 3c: UPDATE products SET stock = stock - ? WHERE id = ?
UpdateStock(r) ==
    /\ pc[r] = "update_stock"
    /\ work' = [work EXCEPT ![r] = DecrementStock(@, Item(r).product_id, Item(r).quantity)]
    /\ IF idx[r] < Len(payload[r])
       THEN /\ idx' = [idx EXCEPT ![r] = @ + 1]
            /\ pc' = [pc EXCEPT ![r] = "price"]
       ELSE /\ idx' = [idx EXCEPT ![r] = 0]
            /\ pc' = [pc EXCEPT ![r] = "commit"]
    /\ unit_price' = [unit_price EXCEPT ![r] = 0]
    /\ UNCHANGED <<side_vars, db, version, writer, updates, payload, total_cents, order_id,
                   snapver, result>>

\* tx.commit().await?; Ok((CREATED, Json(OrderResponse { id, total_cents })))
Commit(r) ==
    /\ pc[r] = "commit"
    /\ db' = CommitTx(db, work[r])
    /\ version' = version + 1
    /\ Finish(r, Created(order_id[r], total_cents[r]))
    /\ UNCHANGED <<side_vars, updates, payload>>

\* any awaited store call (begin, a query, the commit) returns Err: `?` returns
\* AppError::DbError and drops the transaction
StoreError(r) ==
    /\ \/ InFlight(r)
       \/ pc[r] = "start" /\ payload[r] # << >>
    /\ Abort(r, DbError("fault"))

\* the client disconnects: the handler's future is dropped at an await point
Cancel(r) ==
    /\ \/ InFlight(r)
       \/ pc[r] = "start" /\ payload[r] # << >>
    /\ Abort(r, Cancelled)

\* ---------------------------------------------------------- update_product
\* begin; UPDATE products SET .. COALESCE ..; commit  (one write transaction)
PriceUpdates == [name : {None}, description : {None},
                 price_cents : {Some(v) : v \in NewPrices}, stock : {None}]

update_product(p, upd) ==
    /\ updates < MaxUpdates
    /\ writer = NoId
    /\ db' = CommitTx(db, UpdateProductRow(db, p, upd))
    /\ version' = IF SelectProduct(db, p) # {} THEN version + 1 ELSE version
    /\ updates' = updates + 1
    /\ UNCHANGED <<side_vars, writer, payload, pc, idx, total_cents, order_id, unit_price,
                   snapver, work, result>>

\* The handler in two steps: the write transaction, then the read-back
\* ("return updated") that runs on the pool after the commit.
NoFields == [name |-> None, description |-> None, price_cents |-> None, stock |-> None]

NoUpdate == [pc |-> "idle", id |-> 0, upd |-> NoFields, matched |-> FALSE, row |-> {}]

\* the UpdateProduct payloads: every subset of the four fields
Updates == [name : {None, Some("n2")}, description : {None, Some("d2")},
            price_cents : {None} \cup {Some(v) : v \in NewPrices},
            stock : {None, Some(0)}]

\* begin; UPDATE products SET .. WHERE id = ?; commit
UpdateCommit(p, upd) ==
    /\ updater.pc # "read"
    /\ updates < MaxUpdates
    /\ writer = NoId
    /\ db' = CommitTx(db, UpdateProductRow(db, p, upd))
    /\ version' = IF SelectProduct(db, p) # {} THEN version + 1 ELSE version
    /\ updates' = updates + 1
    /\ updater' = [pc |-> "read", id |-> p, upd |-> upd,
                   matched |-> SelectProduct(db, p) # {}, row |-> {}]
    /\ UNCHANGED <<order_vars, writer, assigned, catops, reader>>

\* SELECT .. FROM products WHERE id = ?  (fetch_optional on the pool):
\* Some(r) => Ok(Json(Product)), None => Err(AppError::NotFound)
UpdateReadBack ==
    /\ updater.pc = "read"
    /\ updater' = [updater EXCEPT !.pc = "done", !.upd = NoFields,
                                  !.row = SelectProduct(db, updater.id)]
    /\ UNCHANGED <<order_vars, db, version, writer, updates, assigned, catops, reader>>

\* ---------------------------------------------------------- create_product
\* the CreateProduct payloads; "" is a name that is empty after trim()
NewProducts == [name : {"", "n2"}, description : {"d2"}, price_cents : NewPrices,
                stock : {1}]

MaxOf(ids) == IF ids = {} THEN 0 ELSE CHOOSE x \in ids : \A y \in ids : y <= x

\* (mutant) a products table without AUTOINCREMENT: the next rowid is one more
\* than the largest rowid present
NextRowidReuse(view) == MaxOf(DOMAIN view.products) + 1

\* id INTEGER PRIMARY KEY AUTOINCREMENT: one more than the largest rowid the
\* table ever held
NextRowid(view) == MaxOf(DOMAIN view.products \cup {view.seq}) + 1

\* INSERT INTO products (name, description, price_cents, stock, created_at)
InsertProductRow(view, new) ==
    [view EXCEPT !.products = (NextRowid(view) :> new) @@ view.products,
                 !.seq = NextRowid(view)]

\* validations, then begin; INSERT; commit (the read-back that follows only
\* builds the response)
create_product(new) ==
    /\ catops < MaxCatalogOps
    /\ catops' = catops + 1
    /\ IF new.name = "" \/ new.price_cents <= 0
       THEN UNCHANGED <<db, version, assigned>>
       ELSE /\ writer = NoId
            /\ db' = CommitTx(db, InsertProductRow(db, new))
            /\ version' = version + 1
            /\ assigned' = assigned \cup DOMAIN db'.products
    /\ UNCHANGED <<order_vars, writer, updates, updater, reader>>

\* ---------------------------------------------------------- delete_product
\* order_items.product_id REFERENCES products(id)
Referenced(view, p) == \E i \in 1 .. Len(view.items) : view.items[i].product_id = p

\* (mutant) a delete that cascades to the order items of the product
DeleteProductCascade(view, p) ==
    [view EXCEPT !.products = [x \in DOMAIN view.products \ {p} |-> view.products[x]],
                 !.items = SelectSeq(view.items, LAMBDA row : row.product_id # p)]

\* DELETE FROM products WHERE id = ?
DeleteProductRow(view, p) ==
    [view EXCEPT !.products = [x \in DOMAIN view.products \ {p} |-> view.products[x]]]

\* One statement on the pool. Whether SQLite enforces the foreign key is set by
\* the connection options, not by this source: fk covers both settings. With
\* enforcement the DELETE of a referenced product fails (DbError).
delete_product(p, fk) ==
    /\ catops < MaxCatalogOps
    /\ writer = NoId
    /\ catops' = catops + 1
    /\ IF fk /\ Referenced(db, p)
       THEN UNCHANGED <<db, version>>
       ELSE /\ db' = DeleteProductRow(db, p)
            /\ version' = IF SelectProduct(db, p) # {} THEN version + 1 ELSE version
    /\ UNCHANGED <<order_vars, writer, updates, assigned, updater, reader>>

\* --------------------------------------------------------------- get_order
NoRead == [pc |-> "idle", id |-> NoId, row |-> {}, items |-> << >>]

\* SELECT product_id, quantity, unit_price_cents FROM order_items WHERE order_id = ?
\* (no ORDER BY: the rows come in rowid order)
SelectItems(view, o) ==
    LET rows == SelectSeq(view.items, LAMBDA row : row.order_id = o)
    IN  [i \in 1 .. Len(rows) |->
            [product_id |-> rows[i].product_id, quantity |-> rows[i].quantity,
             unit_price_cents |-> rows[i].unit_price_cents]]

\* SELECT id, total_cents, created_at FROM orders WHERE id = ?  (fetch_optional
\* on the pool); None => Err(AppError::NotFound)
GetOrderRow(o) ==
    /\ reader.pc = "idle"
    /\ reader' = IF o \in DOMAIN db.orders
                 THEN [pc |-> "items", id |-> o, row |-> {db.orders[o]}, items |-> << >>]
                 ELSE [pc |-> "done", id |-> o, row |-> {}, items |-> << >>]
    /\ UNCHANGED <<order_vars, db, version, writer, updates, assigned, catops, updater>>

\* the second query, on the pool as well, then Ok(Json(order))
GetOrderItems ==
    /\ reader.pc = "items"
    /\ reader' = [reader EXCEPT !.pc = "done", !.items = SelectItems(db, reader.id)]
    /\ UNCHANGED <<order_vars, db, version, writer, updates, assigned, catops, updater>>

\* ------------------------------------------------------------ specification
Common ==
    /\ db = InitDb
    /\ version = 0
    /\ writer = NoId
    /\ updates = 0
    /\ idx = [r \in Requests |-> 0]
    /\ total_cents = [r \in Requests |-> 0]
    /\ order_id = [r \in Requests |-> NoId]
    /\ unit_price = [r \in Requests |-> 0]
    /\ snapver = [r \in Requests |-> 0 - 1]
    /\ work = [r \in Requests |-> NoDb]
    /\ result = [r \in Requests |-> NoResult]
    /\ assigned = DOMAIN InitProducts
    /\ catops = 0
    /\ updater = NoUpdate
    /\ reader = NoRead

\* one order request ("r1"; "r2" never arrives) beside the catalog updates
Init ==
    /\ Common
    /\ \E items \in Payloads : payload = [r \in Requests |-> IF r = "r1" THEN items ELSE << >>]
    /\ pc = [r \in Requests |-> IF r = "r1" THEN "start" ELSE "done"]

OrderStep(r) ==
    \/ RejectEmpty(r)
    \/ Begin(r)
    \/ CheckItem(r)
    \/ \E o \in OrderIds : \E now \in Times : InsertOrder(r, o, now)
    \/ WriteRefused(r)
    \/ SelectPrice(r)
    \/ InsertItem(r)
    \/ UpdateStock(r)
    \/ Commit(r)
    \/ StoreError(r)
    \/ Cancel(r)

Next ==
    \/ \E r \in Requests : OrderStep(r)
    \/ \E p \in CatalogIds : \E upd \in PriceUpdates : update_product(p, upd)

Spec == Init /\ [][Next]_vars

\* two order requests running together
InitRace ==
    /\ Common
    /\ payload \in [Requests -> RacePayloads]
    /\ pc = [r \in Requests |-> "start"]

NextRace == \E r \in Requests : OrderStep(r)

SpecRace == InitRace /\ [][NextRace]_vars

\* two order requests beside the catalog handlers; "r2" orders product 2
InitCatalog ==
    /\ Common
    /\ \E items \in CatalogPayloads :
          payload = [r \in Requests |->
                        IF r = "r1" THEN items ELSE <<[product_id |-> 2, quantity |-> 1]>>]
    /\ pc = [r \in Requests |-> "start"]

\* the updates that run beside create_product and delete_product: of the
\* price, of the stock
CatalogUpdates ==
    {[NoFields EXCEPT !.price_cents = Some(v)] : v \in NewPrices} \cup
    {[NoFields EXCEPT !.stock = Some(0)]}

NextCatalog ==
    \/ \E r \in Requests : OrderStep(r)
    \/ \E p \in CatalogIds : \E upd \in CatalogUpdates : update_product(p, upd)
    \/ \E new \in NewProducts : create_product(new)
    \/ \E p \in RequestIds : \E fk \in BOOLEAN : delete_product(p, fk)

SpecCatalog == InitCatalog /\ [][NextCatalog]_vars

\* the ids update_product is called with: a product of the catalog, and the id
\* the next create_product assigns
UpdateIds == {2, 3}

\* one order request beside update_product in its two steps and create_product
InitUpdate ==
    /\ Common
    /\ \E items \in CatalogPayloads :
          payload = [r \in Requests |-> IF r = "r1" THEN items ELSE << >>]
    /\ pc = [r \in Requests |-> IF r = "r1" THEN "start" ELSE "done"]

NextUpdate ==
    \/ \E r \in Requests : OrderStep(r)
    \/ \E p \in UpdateIds : \E upd \in Updates : UpdateCommit(p, upd)
    \/ UpdateReadBack
    \/ \E new \in NewProducts : create_product(new)

SpecUpdate == InitUpdate /\ [][NextUpdate]_vars

\* one order request and one update_product beside a get_order
NextRead ==
    \/ Next
    \/ \E o \in OrderIds : GetOrderRow(o)
    \/ GetOrderItems

SpecRead == Init /\ [][NextRead]_vars

\* Two order requests beside update_product, under fair scheduling: the runtime
\* keeps polling a request that can go on, and the store answers every
\* statement (it runs it or refuses it). Failures of the store and
\* cancellations may happen; nothing says they ever do.
InitLive ==
    /\ Common
    /\ payload \in [Requests -> CatalogPayloads]
    /\ pc = [r \in Requests |-> "start"]

NextLive ==
    \/ \E r \in Requests : OrderStep(r)
    \/ \E p \in CatalogIds : \E upd \in CatalogUpdates : update_product(p, upd)

\* the steps a request takes by itself
Proceed(r) ==
    \/ RejectEmpty(r)
    \/ Begin(r)
    \/ CheckItem(r)
    \/ \E o \in OrderIds : \E now \in Times : InsertOrder(r, o, now)
    \/ WriteRefused(r)
    \/ SelectPrice(r)
    \/ InsertItem(r)
    \/ UpdateStock(r)
    \/ Commit(r)

SpecLive ==
    /\ InitLive
    /\ [][NextLive]_vars
    /\ \A r \in Requests : WF_vars(Proceed(r))

\* ------------------------------------------------------------ properties
RECURSIVE QtyFor(_, _)
\* the quantity a list of items (requested or persisted) asks of product p
QtyFor(items, p) ==
    IF items = << >> THEN 0
    ELSE (IF Head(items).product_id = p THEN Head(items).quantity ELSE 0)
         + QtyFor(Tail(items), p)

RECURSIVE ItemsTotal(_)
\* sum of quantity * unit_price_cents over persisted items
ItemsTotal(rows) ==
    IF rows = << >> THEN 0
    ELSE Head(rows).quantity * Head(rows).unit_price_cents + ItemsTotal(Tail(rows))

IsItemOf(o, row) == row.order_id = o

\* the order_items rows of order o, in insertion order
ItemsOf(view, o) == SelectSeq(view.items, LAMBDA row : IsItemOf(o, row))

\* the rows carry the requests' product ids and quantities, one row per request
RowsMatch(rows, items) ==
    /\ Len(rows) = Len(items)
    /\ \A i \in 1 .. Len(items) :
          /\ rows[i].product_id = items[i].product_id
          /\ rows[i].quantity = items[i].quantity

Unknown(view, it) == it.product_id \notin DOMAIN view.products

Exceeds(view, it) ==
    /\ it.product_id \in DOMAIN view.products
    /\ it.quantity > view.products[it.product_id].stock

FailsCheck(view, it) == Unknown(view, it) \/ Exceeds(view, it)

\* index of the first item, in input order, that fails a check of step 1
FirstFailing(view, items) ==
    CHOOSE i \in 1 .. Len(items) :
        /\ FailsCheck(view, items[i])
        /\ \A j \in 1 .. (i - 1) : ~FailsCheck(view, items[j])

\* the error step 1 reports for the first failing item
ReportsFirstFailure(view, items, res) ==
    LET it == items[FirstFailing(view, items)]
    IN  /\ res.product = it.product_id
        /\ res.kind = IF Unknown(view, it) THEN "ProductNotFound" ELSE "NotEnoughStock"

\* the store failed under the request, or the request was cancelled
Interrupted(res) == res.kind \in {"fault", "Cancelled"}

Done(r) == pc[r] = "done"

\* no order was ever applied to the store: no order, no item, stock as created
\* (prices may have been changed by update_product)
Untouched(view) ==
    /\ view.orders = << >>
    /\ view.items = << >>
    /\ DOMAIN view.products = DOMAIN InitProducts
    /\ \A p \in DOMAIN InitProducts : view.products[p].stock = InitProducts[p].stock

\* C1: after any PlaceOrder calls on a store whose stock is >= 0 everywhere,
\* every product's committed stock is >= 0.
C1_StockNeverNegative ==
    \A p \in DOMAIN db.products : db.products[p].stock >= 0

\* C2: every committed order's total equals the sum of quantity * unit_price
\* over its persisted items, also when update_product changes prices beside it.
C2_TotalMatchesItems ==
    \A o \in DOMAIN db.orders :
        db.orders[o].total_cents = ItemsTotal(ItemsOf(db, o))

\* an order is committed whose item holds a price that update_product changed
C2_Witness ==
    \E o \in DOMAIN db.orders : \E i \in 1 .. Len(db.items) :
        /\ db.items[i].order_id = o
        /\ db.items[i].quantity > 1
        /\ db.items[i].unit_price_cents # InitProducts[db.items[i].product_id].price_cents
        /\ db.orders[o].total_cents # 0

\* what a view holds is made of whole orders: each order belongs to a request
\* that succeeded and comes with all of that request's items, no item is without
\* its order, and stock is lower by exactly the quantities of the items present
WholeOrders(view) ==
    /\ \A o \in DOMAIN view.orders :
          \E r \in Requests :
              /\ result[r].kind = "Created"
              /\ result[r].id = o
              /\ RowsMatch(ItemsOf(view, o), payload[r])
    /\ \A i \in 1 .. Len(view.items) : view.items[i].order_id \in DOMAIN view.orders
    /\ \A p \in DOMAIN view.products :
          view.products[p].stock = InitProducts[p].stock - QtyFor(view.items, p)

\* C3: whatever another request can observe (the committed store, and the view
\* any transaction other than the writer reads) holds whole orders only.
C3_AtomicVisibility ==
    /\ WholeOrders(db)
    /\ \A r \in Requests : (HasSnapshot(r) /\ writer # r) => WholeOrders(work[r])

\* one request has written its order and part of its items while the other one
\* is reading
C3_Witness ==
    \E w \in Requests : \E r \in Requests :
        /\ w # r
        /\ writer = w
        /\ pc[w] = "update_stock"
        /\ HasSnapshot(r)
        /\ pc[r] \in {"check", "insert_order"}

Succeeds(r) == result[r].kind # "Created" /\ result'[r].kind = "Created"

\* C4: a PlaceOrder that succeeds adds exactly one order and one item per
\* request (with its product id and quantity), lowers every product's stock by
\* the quantity requested of it and no other, and returns the persisted id and
\* total.
C4_SuccessPostcondition ==
    [][\A r \in Requests : Succeeds(r) =>
        LET o == result'[r].id
            n == Len(db.items)
        IN  /\ o \notin DOMAIN db.orders
            /\ DOMAIN db'.orders = DOMAIN db.orders \cup {o}
            /\ \A x \in DOMAIN db.orders : db'.orders[x] = db.orders[x]
            /\ db'.orders[o].total_cents = result'[r].total_cents
            /\ SubSeq(db'.items, 1, n) = db.items
            /\ RowsMatch(SubSeq(db'.items, n + 1, Len(db'.items)), payload[r])
            /\ \A i \in (n + 1) .. Len(db'.items) : db'.items[i].order_id = o
            /\ DOMAIN db'.products = DOMAIN db.products
            /\ \A p \in DOMAIN db.products :
                  /\ db'.products[p].stock = db.products[p].stock - QtyFor(payload[r], p)
                  /\ db'.products[p].price_cents = db.products[p].price_cents
    ]_vars

\* an order of two items on two different products has succeeded
C4_Witness ==
    \E r \in Requests :
        /\ result[r].kind = "Created"
        /\ Len(payload[r]) > 1
        /\ payload[r][1].product_id # payload[r][2].product_id
        /\ result[r].id \in DOMAIN db.orders

InvalidInput(items) ==
    \/ items = << >>
    \/ \E i \in 1 .. Len(items) : items[i].quantity <= 0

\* C5: a request whose list is empty or holds a quantity <= 0 fails, and the
\* store is left without any order, item or stock change.
C5_InvalidInputRejected ==
    \A r \in Requests : InvalidInput(payload[r]) =>
        /\ result[r].kind # "Created"
        /\ Untouched(db)

HasUnknown(r) == \E i \in 1 .. Len(payload[r]) : Unknown(db, payload[r][i])

\* C6 as first stated: a request naming a product id the catalog does not have
\* ends (unless the store fails or it is cancelled) with the not-found error.
C6_UnknownAlwaysNotFound ==
    \A r \in Requests : (Done(r) /\ HasUnknown(r) /\ ~Interrupted(result[r])) =>
        /\ result[r].kind = "ProductNotFound"
        /\ \E i \in 1 .. Len(payload[r]) :
              Unknown(db, payload[r][i]) /\ result[r].product = payload[r][i].product_id

\* C6, amended: a request naming a product id the catalog does not have never
\* succeeds and leaves no order, item or stock change; unless the store fails or
\* it is cancelled, it ends with the error of its first failing item in input
\* order: not-found naming that item's id, or insufficient stock of an earlier
\* item.
C6_UnknownProductFails ==
    \A r \in Requests : HasUnknown(r) =>
        /\ result[r].kind # "Created"
        /\ Untouched(db)
        /\ (Done(r) /\ ~Interrupted(result[r])) =>
              ReportsFirstFailure(db, payload[r], result[r])

\* a request with a valid item before the unknown one ended with not-found
C6_Witness ==
    \E r \in Requests :
        /\ Done(r)
        /\ Len(payload[r]) > 1
        /\ ~FailsCheck(db, payload[r][1])
        /\ payload[r][1].quantity > 0
        /\ Unknown(db, payload[r][2])
        /\ result[r].kind = "ProductNotFound"
        /\ result[r].product = payload[r][2].product_id

\* the step on which request r returns
Ends(r) == ~Done(r) /\ Done(r)'

\* judged on the store as it is when the request returns
HasExceeding(r) == \E i \in 1 .. Len(payload[r]) : Exceeds(db, payload[r][i])

\* C7 as first stated: a request with an item asking more than its product's
\* stock ends (unless the store fails or it is cancelled) with the
\* insufficient-stock error.
C7_ExceedingAlwaysNotEnoughStock ==
    [][\A r \in Requests : (Ends(r) /\ HasExceeding(r) /\ ~Interrupted(result'[r])) =>
        /\ result'[r].kind = "NotEnoughStock"
        /\ \E i \in 1 .. Len(payload[r]) :
              Exceeds(db, payload[r][i]) /\ result'[r].product = payload[r][i].product_id
    ]_vars

\* C7, amended: a request with an item asking more than its product's stock
\* never succeeds and leaves no order, item or stock change; unless the store
\* fails or it is cancelled, it ends with the error of its first failing item in
\* input order: insufficient stock naming that item's product, or not-found of
\* an earlier item.
C7_InsufficientStockFails ==
    [][\A r \in Requests : (Ends(r) /\ HasExceeding(r)) =>
        /\ result'[r].kind # "Created"
        /\ db' = db
        /\ Untouched(db')
        /\ ~Interrupted(result'[r]) => ReportsFirstFailure(db, payload[r], result'[r])
    ]_vars

\* a request with a valid item before the exceeding one ended with
\* insufficient stock
C7_Witness ==
    \E r \in Requests :
        /\ Done(r)
        /\ Len(payload[r]) > 1
        /\ ~FailsCheck(db, payload[r][1])
        /\ payload[r][1].quantity > 0
        /\ Exceeds(db, payload[r][2])
        /\ result[r].kind = "NotEnoughStock"
        /\ result[r].product = payload[r][2].product_id

LastUnit == << [product_id |-> 1, quantity |-> 1] >>

\* C8: two requests for the last unit of product 1 (stock 1), run together
\* without store failure or cancellation: one succeeds, the other ends with the
\* insufficient-stock error, and the stock ends at 0.
C8_LastUnitRace ==
    (\A r \in Requests : payload[r] = LastUnit /\ Done(r) /\ ~Interrupted(result[r])) =>
        /\ db.products[1].stock = 0
        /\ \E w \in Requests :
              /\ result[w].kind = "Created"
              /\ \A l \in Requests \ {w} :
                    result[l].kind = "NotEnoughStock" /\ result[l].product = 1

\* the request ended with an error of the store, or was cancelled
Failed(res) == res.kind \in DbErrorKinds \cup {"Cancelled"}

\* C9: a PlaceOrder that ends because a store operation failed or because it was
\* cancelled leaves the store as it was before the call (no order, no item, no
\* stock change) and holds no lock; a success is returned only by a commit.
C9_FailureRollsBack ==
    [][\A r \in Requests : Ends(r) =>
        /\ writer' # r
        /\ Failed(result'[r]) => (db' = db /\ Untouched(db') /\ version' = version)
        /\ result'[r].kind = "Created" => (db' # db /\ version' = version + 1)
    ]_vars

\* a request failed or was cancelled
C9_Witness ==
    \E r \in Requests : Done(r) /\ Failed(result[r]) /\ Untouched(db) /\ payload[r] # << >>

\* C10: the same payload placed twice with success gives two orders with two
\* different ids, each persisted with its own items, and each product's stock
\* is lower by twice the quantity the payload asks of it.
C10_NoDeduplication ==
    \A r1 \in Requests : \A r2 \in Requests \ {r1} :
        (/\ payload[r1] = payload[r2]
         /\ result[r1].kind = "Created"
         /\ result[r2].kind = "Created") =>
            /\ result[r1].id # result[r2].id
            /\ {result[r1].id, result[r2].id} \subseteq DOMAIN db.orders
            /\ RowsMatch(ItemsOf(db, result[r1].id), payload[r1])
            /\ RowsMatch(ItemsOf(db, result[r2].id), payload[r2])
            /\ \A p \in DOMAIN db.products :
                  db.products[p].stock =
                      InitProducts[p].stock - 2 * QtyFor(payload[r1], p)

\* both requests carried the same order of product 2 and both succeeded
C10_Witness ==
    /\ \A r \in Requests : result[r].kind = "Created" /\ payload[r] # << >>
    /\ \E r1 \in Requests : \A r2 \in Requests :
          payload[r1] = payload[r2] /\ payload[r1][1].quantity > 0

\* C11: once an order is committed, no later step (update_product of price or
\* stock, delete_product of a product it references, create_product, another
\* PlaceOrder) removes it or changes its total, its created_at, or the product
\* id, quantity or unit price of any of its items.
C11_OrdersFrozen ==
    [][\A o \in DOMAIN db.orders :
        /\ o \in DOMAIN db'.orders
        /\ db'.orders[o].total_cents = db.orders[o].total_cents
        /\ db'.orders[o].created_at = db.orders[o].created_at
        /\ ItemsOf(db', o) = ItemsOf(db, o)
    ]_vars

\* an order is committed; since then one product it references was deleted and
\* another one's price was changed, and a second order was placed
C11_Witness ==
    \E o \in DOMAIN db.orders :
        /\ \E i \in 1 .. Len(db.items) :
              /\ db.items[i].order_id = o
              /\ db.items[i].product_id \notin DOMAIN db.products
        /\ \E i \in 1 .. Len(db.items) :
              /\ db.items[i].order_id = o
              /\ db.items[i].product_id \in DOMAIN db.products
              /\ db.products[db.items[i].product_id].price_cents # db.items[i].unit_price_cents
        /\ DOMAIN db.orders # {o}

\* C12: under fair scheduling every PlaceOrder, alone or beside another
\* PlaceOrder and update_product on the same products, eventually ends (by its
\* commit or by a rollback), and a request that has ended never holds the write
\* lock: no requests wait on each other forever.
C12_NonBlocking ==
    /\ \A r \in Requests : <>Done(r)
    /\ [](\A r \in Requests : Done(r) => writer # r)

\* both requests have ended, one by its commit and the other one refused by the
\* store because the first one held the write lock
C12_Witness ==
    \E w \in Requests : \E r \in Requests :
        /\ result[w].kind = "Created"
        /\ result[r].kind = "busy"
        /\ Done(w) /\ Done(r)
        /\ writer = NoId

SomeFails(view, items) == \E i \in 1 .. Len(items) : FailsCheck(view, items[i])

\* C13: items are examined in input order, existence before stock, one item
\* after the other: a request with failing items that ends with a validation
\* error (or without the store failing or a cancellation) reports the error of
\* the first failing item in input order; while step 1 runs nothing is written
\* and the write lock is not taken; the order insert is issued only once every
\* item has passed both checks.
C13_ValidationOrder ==
    [][\A r \in Requests :
        /\ (/\ Ends(r)
             /\ \/ result'[r].kind \in {"ProductNotFound", "NotEnoughStock"}
                \/ SomeFails(db, payload[r]) /\ ~Interrupted(result'[r])) =>
                (/\ SomeFails(db, payload[r])
                 /\ ReportsFirstFailure(db, payload[r], result'[r]))
        /\ pc[r] \in {"start", "check"} =>
                (/\ writer' # r
                 /\ work'[r] \in {work[r], db, NoDb})
        /\ (pc[r] = "insert_order" /\ pc'[r] = "price") =>
                ~SomeFails(work[r], payload[r])
    ]_vars

\* a request whose first item names an unknown product and whose second item
\* asks more than the stock has ended with the not-found error of the first
C13_Witness ==
    \E r \in Requests :
        /\ Done(r)
        /\ Len(payload[r]) > 1
        /\ Unknown(db, payload[r][1])
        /\ Exceeds(db, payload[r][2])
        /\ result[r].kind = "ProductNotFound"
        /\ result[r].product = payload[r][1].product_id

\* C14: over any sequence of create_product and delete_product calls, the id
\* given to a new product is none of the ids assigned before (those of deleted
\* products included), and no persisted order item already carries it: an
\* item's product_id never comes to name another product than the one bought.
C14_IdsNeverReused ==
    [][\A p \in DOMAIN db'.products \ DOMAIN db.products :
        /\ p \notin assigned
        /\ \A i \in 1 .. Len(db.items) : db.items[i].product_id # p
    ]_vars

\* a product that an order item references has been deleted and a new product
\* has been created
C14_Witness ==
    /\ \E i \in 1 .. Len(db.items) : db.items[i].product_id \notin DOMAIN db.products
    /\ \E p \in DOMAIN db.products : p \notin DOMAIN InitProducts
    /\ \E p \in assigned : p \notin DOMAIN db.products

\* the value a field has after an update that supplies opt for it
FieldAfter(opt, old) == IF opt = {} THEN old ELSE CHOOSE v \in opt : TRUE

\* the step that commits update_product(p, upd) changes the supplied fields of
\* product p and nothing else
UpdateFrame ==
    updates' # updates =>
        LET p == updater'.id
            upd == updater'.upd
        IN  /\ db'.orders = db.orders
            /\ db'.items = db.items
            /\ db'.seq = db.seq
            /\ DOMAIN db'.products = DOMAIN db.products
            /\ \A x \in DOMAIN db.products \ {p} : db'.products[x] = db.products[x]
            /\ p \in DOMAIN db.products =>
                  /\ db'.products[p].name = FieldAfter(upd.name, db.products[p].name)
                  /\ db'.products[p].description =
                        FieldAfter(upd.description, db.products[p].description)
                  /\ db'.products[p].price_cents =
                        FieldAfter(upd.price_cents, db.products[p].price_cents)
                  /\ db'.products[p].stock = FieldAfter(upd.stock, db.products[p].stock)
            /\ p \notin DOMAIN db.products => db' = db

\* C15 as first stated: an update changes exactly the supplied fields of its
\* product and nothing else, and an update of an id that did not exist changes
\* nothing and returns NotFound.
C15_MissingIdAlwaysNotFound ==
    /\ [][UpdateFrame]_vars
    /\ []((updater.pc = "done" /\ ~updater.matched) => updater.row = {})

\* C15, amended: an update changes exactly the supplied fields of its product
\* and nothing else, an update of an id that does not exist changes nothing,
\* and the handler returns NotFound exactly when no product with that id
\* exists when it reads the row back after its commit.
C15_UpdateFrame ==
    [][/\ UpdateFrame
       /\ (updater.pc = "read" /\ updater'.pc = "done") =>
              /\ updater'.row = {} <=> updater.id \notin DOMAIN db.products
              /\ \A row \in updater'.row : row = db.products[updater.id]
              /\ db' = db
    ]_vars

\* beside a committed order, an update of an id that did not exist has returned
\* the product that create_product made in between
C15_Witness ==
    /\ updater.pc = "done"
    /\ ~updater.matched
    /\ updater.row # {}
    /\ db.orders # << >>

\* C16: with no update_product and no delete_product, in every committed state
\* and for every product, the stock plus the quantities of the persisted order
\* items that reference the product is the stock the product was created with,
\* however the concurrent PlaceOrder calls interleave.
C16_StockConservation ==
    \A p \in DOMAIN db.products :
        db.products[p].stock + QtyFor(db.items, p) = InitProducts[p].stock

\* two requests that ran together have both committed their order, one of them
\* for more than one unit, and every product's stock went down
C16_Witness ==
    /\ \A r \in Requests : result[r].kind = "Created" /\ result[r].id \in DOMAIN db.orders
    /\ \E i \in 1 .. Len(db.items) : db.items[i].quantity > 1
    /\ \A p \in DOMAIN db.products : db.products[p].stock < InitProducts[p].stock

\* C17: get_order runs two separate queries on the pool. Beside a PlaceOrder
\* and update_product: whenever it returns an order, the items it returns are
\* all the items of the request that committed that order, in full, and the
\* total it returns is the sum of quantity * unit_price over them; and its
\* first query answers NotFound exactly when no order of that id is committed.
C17_ConsistentReadBack ==
    /\ []((reader.pc = "done" /\ reader.row # {}) =>
            /\ \E r \in Requests :
                  /\ result[r].kind = "Created"
                  /\ result[r].id = reader.id
                  /\ RowsMatch(reader.items, payload[r])
            /\ \A row \in reader.row : row.total_cents = ItemsTotal(reader.items))
    /\ [][(reader.pc = "idle" /\ reader'.pc # "idle") =>
            (reader'.row = {} <=> reader'.id \notin DOMAIN db.orders)]_vars

\* get_order has returned an order of two items whose product's price
\* update_product has changed
C17_Witness ==
    /\ reader.pc = "done"
    /\ reader.row # {}
    /\ Len(reader.items) > 1
    /\ \E i \in 1 .. Len(reader.items) :
          /\ reader.items[i].product_id \in DOMAIN db.products
          /\ reader.items[i].unit_price_cents #
                db.products[reader.items[i].product_id].price_cents

====
